---------------------------- MODULE Spec2Model ----------------------------
(***************************************************************************)
(* Model of src/lib/index.ts (class DlcOracle): the Schnorr-variant oracle *)
(* signature of Discreet Log Contracts.                                    *)
(*                                                                         *)
(* Scale.  TLC's integers are 32 bits wide, so the 256-bit quantities of   *)
(* the program are modelled at a width of ByteLen = 2 bytes in place of    *)
(* 32: buffers are sequences of ByteLen bytes, hex strings are sequences   *)
(* of hex digits (0..15) of up to HexLen = 2*ByteLen digits in place of    *)
(* 64, the curve is y^2 = x^3 + 7 over the prime field of FieldP elements, *)
(* of prime order OrderN (the shape of secp256k1: a = 0, b = 7, OrderN <   *)
(* FieldP, cofactor 1), and the SHA-256 digest is a deterministic digest   *)
(* of ByteLen bytes over the same byte stream.  Every conversion the code  *)
(* performs (Buffer <-> hex string <-> BN, padding, point compression) is  *)
(* modelled digit by digit and byte by byte.                               *)
(***************************************************************************)
EXTENDS Integers, Sequences, FiniteSets, TLC

ByteLen == 2
HexLen == 2 * ByteLen

\* Curve domain parameters of the EC context (const ec = new EC(...)).
FieldP == 349
OrderN == 313
CurveB == 7
Gx == 2
Gy == 109

\* Bounds of the inputs explored.
MaxPriv == 2
MaxNonce == 110
MaxValue == 1
MaxSigs == 2
MaxLow == 3
MaxNum == 40
MaxMod == 7

(***************************************************************************)
(* Results: a returned Buffer, a thrown exception, or not yet called.      *)
(***************************************************************************)
Ok(b) == [err |-> "ok", buf |-> b]
Throw(e) == [err |-> e, buf |-> <<>>]
Pending == [err |-> "pending", buf |-> <<>>]

(***************************************************************************)
(* Hex strings, Buffers and big numbers.                                   *)
(***************************************************************************)
Abs(i) == IF i < 0 THEN -i ELSE i

RECURSIVE Pow16(_)
Pow16(j) == IF j = 0 THEN 1 ELSE 16 * Pow16(j - 1)

\* Number.prototype.toString(16) and BN.prototype.toString(16) of a
\* non-negative integer: the hex digits without leading zeros ("0" for 0).
RECURSIVE toString16(_)
toString16(v) ==
    IF v < 16 THEN <<v>> ELSE Append(toString16(v \div 16), v % 16)

\* new BN(hexString, 16): the integer a hex string denotes.
RECURSIVE BNFromHex(_)
BNFromHex(h) ==
    IF Len(h) = 0 THEN 0
    ELSE 16 * BNFromHex(SubSeq(h, 1, Len(h) - 1)) + h[Len(h)]

\* Buffer.from(hexString, 'hex'): one byte per pair of digits; a trailing
\* single digit is dropped.
BufferFromHex(h) ==
    [i \in 1..(Len(h) \div 2) |-> 16 * h[2 * i - 1] + h[2 * i]]

\* Buffer.prototype.toString('hex'): two digits per byte.
BufferToHex(b) ==
    [i \in 1..(2 * Len(b)) |->
        IF i % 2 = 1 THEN b[(i + 1) \div 2] \div 16 ELSE b[i \div 2] % 16]

\* new Array(len).join('0'): len - 1 zeros ('' for len = 0); a negative
\* length throws RangeError (the callers test ArrayLenOk first).
ArrayLenOk(len) == len >= 0
ArrayJoinZeros(len) == [i \in 1..(IF len = 0 THEN 0 ELSE len - 1) |-> 0]

\* The fixed-width big-endian bytes of a value, as the elliptic library
\* writes a coordinate (toArray('be', len)).
ToArrayBE(v, len) ==
    LET h == toString16(v)
    IN  BufferFromHex(ArrayJoinZeros(2 * len - Len(h) + 1) \o h)

padHexString(hexString) ==
    IF Len(hexString) % 2 # 0 THEN <<0>> \o hexString ELSE hexString

(***************************************************************************)
(* BN.prototype.mod: the remainder of the truncated division, with the     *)
(* sign of the dividend (zero is never negative).                          *)
(***************************************************************************)
BNMod(num1, num2) ==
    LET r == Abs(num1) % Abs(num2)
    IN  IF num1 < 0 THEN -r ELSE r

euclideanMod(num1, num2) ==
    LET neg == num1 < 0
        m == BNMod(num1, num2)
    IN  IF neg
        THEN IF num2 < 0 THEN m - num2 ELSE m + num2
        ELSE m


(***************************************************************************)
(* generateNumericMessage (value is a non-negative integer).               *)
(***************************************************************************)
\* Mutant: the pad is one '0' short (new Array(64 - length) in place of
\* new Array(64 - length + 1)).
generateNumericMessage_ShortPad(value) ==
    LET numberString == toString16(value)
        len == HexLen - Len(numberString)
    IN  IF ~ArrayLenOk(len) THEN Throw("RangeError")
        ELSE Ok(BufferFromHex(ArrayJoinZeros(len) \o numberString))

generateNumericMessage(value) ==
    LET numberString == toString16(value)
        len == HexLen - Len(numberString) + 1
    IN  IF ~ArrayLenOk(len) THEN Throw("RangeError")
        ELSE Ok(BufferFromHex(ArrayJoinZeros(len) \o numberString))

(***************************************************************************)
(* The digest createHash('sha256') computes over the bytes it is updated   *)
(* with, as digest('hex') returns it: HexLen hex digits.  The stand-in     *)
(* folds every byte, in order, into a value of ByteLen bytes, so it        *)
(* depends on each byte and on how many bytes there are.                   *)
(***************************************************************************)
RECURSIVE HashFold(_, _)
HashFold(h, bytes) ==
    IF Len(bytes) = 0 THEN h
    ELSE HashFold((7 * h + Head(bytes) + 1) % Pow16(HexLen), Tail(bytes))

Sha256Hex(bytes) ==
    LET d == toString16(HashFold(0, bytes))
    IN  ArrayJoinZeros(HexLen - Len(d) + 1) \o d

(***************************************************************************)
(* The elliptic library's short Weierstrass curve (a = 0).                 *)
(***************************************************************************)
Point(x, y) == [inf |-> FALSE, x |-> x, y |-> y]
Infinity == [inf |-> TRUE, x |-> 0, y |-> 0]
G == Point(Gx, Gy)

RECURSIVE PowMod(_, _, _)
PowMod(b, e, m) ==
    IF e = 0 THEN 1
    ELSE LET h == PowMod(b, e \div 2, m)
             sq == (h * h) % m
         IN  IF e % 2 = 1 THEN (sq * (b % m)) % m ELSE sq

\* The inverse in the prime field (redInvm).
FieldInv(a) == PowMod(a % FieldP, FieldP - 2, FieldP)

PointNeg(P) == IF P.inf THEN P ELSE Point(P.x, (FieldP - P.y) % FieldP)

PointDbl(P) ==
    IF P.inf THEN P
    ELSE IF (2 * P.y) % FieldP = 0 THEN Infinity
    ELSE LET c == (3 * P.x * P.x * FieldInv(2 * P.y)) % FieldP
             nx == (c * c + 2 * (FieldP - P.x)) % FieldP
             ny == (c * (P.x + FieldP - nx) + (FieldP - P.y)) % FieldP
         IN  Point(nx, ny)

PointAdd(P, Q) ==
    IF P.inf THEN Q
    ELSE IF Q.inf THEN P
    ELSE IF P = Q THEN PointDbl(P)
    ELSE IF PointNeg(P) = Q THEN Infinity
    ELSE IF P.x = Q.x THEN Infinity
    ELSE LET c == ((P.y + FieldP - Q.y) * FieldInv(P.x + FieldP - Q.x)) % FieldP
             nx == (c * c + (FieldP - P.x) + (FieldP - Q.x)) % FieldP
             ny == (c * (P.x + FieldP - nx) + (FieldP - P.y)) % FieldP
         IN  Point(nx, ny)

\* Point.prototype.mul(k), k a non-negative BN of any size.
RECURSIVE PointMul(_, _)
PointMul(P, k) ==
    IF P.inf THEN P
    ELSE IF k = 0 THEN Infinity
    ELSE LET d == PointDbl(PointMul(P, k \div 2))
         IN  IF k % 2 = 1 THEN PointAdd(d, P) ELSE d

\* Point.prototype.encodeCompressed('hex'): the parity byte and the
\* x-coordinate on ByteLen bytes; getX() of the point at infinity (x is
\* null) throws TypeError.
encodeCompressed(P) ==
    IF P.inf THEN Throw("TypeError")
    ELSE Ok(BufferToHex(<<IF P.y % 2 = 0 THEN 2 ELSE 3>> \o ToArrayBE(P.x, ByteLen)))

\* ec.keyFromPublic(buffer).pub: the point a compressed encoding denotes
\* (curve.decodePoint and pointFromX); an error for any other input.
SqrtExists(y2) == \E y \in 0..(FieldP - 1) : (y * y) % FieldP = y2
SqrtOf(y2, odd) ==
    CHOOSE y \in 0..(FieldP - 1) :
        /\ (y * y) % FieldP = y2
        /\ (y % 2 = 1) = odd \/ y = 0

keyFromPublic(pub) ==
    IF Len(pub) # ByteLen + 1 \/ pub[1] \notin {2, 3}
    THEN [err |-> "Error", pub |-> Infinity]
    ELSE LET x == BNFromHex(BufferToHex(Tail(pub))) % FieldP
             y2 == (x * x * x + CurveB) % FieldP
         IN  IF ~SqrtExists(y2) THEN [err |-> "Error", pub |-> Infinity]
             ELSE [err |-> "ok", pub |-> Point(x, SqrtOf(y2, pub[1] = 3))]

\* ec.keyFromPrivate(buffer).getPublic(): the private scalar is reduced
\* modulo the curve order (umod) and multiplied with the generator.
keyFromPrivate(privateKey) ==
    PointMul(G, BNFromHex(BufferToHex(privateKey)) % OrderN)

(***************************************************************************)
(* publicKeyFromPrivateKey                                                 *)
(***************************************************************************)
publicKeyFromPrivateKey(privateKey) ==
    LET enc == encodeCompressed(keyFromPrivate(privateKey))
    IN  IF enc.err # "ok" THEN Throw(enc.err)
        ELSE Ok(BufferFromHex(enc.buf))

(***************************************************************************)
(* The bytes both functions feed to the hash: the message, then the bytes  *)
(* of padHexString(Rx.toString(16)); and the challenge read from the       *)
(* digest.                                                                 *)
(***************************************************************************)
HashInput(message, Rx) ==
    message \o BufferFromHex(padHexString(toString16(Rx)))

Challenge(message, Rx) == BNFromHex(Sha256Hex(HashInput(message, Rx)))

(***************************************************************************)
(* computeSignature                                                        *)
(***************************************************************************)
\* Mutant: the product is added to the one-time key, not subtracted.
SignatureScalar_Plus(bigPriv, bigK, bigE) ==
    euclideanMod(bigK + bigE * bigPriv, OrderN)

\* bigS = euclideanMod(bigK - bigE * bigPriv, ec.curve.n)
SignatureScalar(bigPriv, bigK, bigE) ==
    euclideanMod(bigK - bigE * bigPriv, OrderN)

\* The returned Buffer: the hex digits of bigS, left-padded to HexLen.
SignatureBytes(bigS) ==
    LET numberString == toString16(bigS)
        padded == IF Len(numberString) < HexLen
                  THEN ArrayJoinZeros(HexLen - Len(numberString) + 1) \o numberString
                  ELSE numberString
    IN  BufferFromHex(padded)

computeSignature(privateKey, oneTimeSigningKey, message) ==
    LET bigPriv == BNFromHex(BufferToHex(privateKey))
        bigK == BNFromHex(BufferToHex(oneTimeSigningKey))
        R == PointMul(G, bigK)
    IN  IF R.inf THEN Throw("TypeError")
        ELSE Ok(SignatureBytes(SignatureScalar(bigPriv, bigK, Challenge(message, R.x))))

\* What computeSignature hashed and read as the challenge (<<>> and 0 when
\* it threw before hashing).
SignHashInput(oneTimeSigningKey, message) ==
    LET R == PointMul(G, BNFromHex(BufferToHex(oneTimeSigningKey)))
    IN  IF R.inf THEN <<>> ELSE HashInput(message, R.x)

SignChallenge(oneTimeSigningKey, message) ==
    LET R == PointMul(G, BNFromHex(BufferToHex(oneTimeSigningKey)))
    IN  IF R.inf THEN 0 ELSE Challenge(message, R.x)

(***************************************************************************)
(* computeSignaturePubKey                                                  *)
(***************************************************************************)
computeSignaturePubKey(oracleA, oracleR, message) ==
    LET A == keyFromPublic(oracleA)
        R == keyFromPublic(oracleR)
    IN  IF A.err # "ok" \/ R.err # "ok" THEN Throw("Error")
        ELSE LET bigE == Challenge(message, R.pub.x)
                 P == PointMul(A.pub, bigE)
             IN  IF P.inf THEN Throw("TypeError")
                 ELSE LET bigY == euclideanMod(-P.y, FieldP)
                          newY == BNFromHex(toString16(bigY))
                          enc == encodeCompressed(PointAdd(Point(P.x, newY), R.pub))
                      IN  IF enc.err # "ok" THEN Throw(enc.err)
                          ELSE Ok(BufferFromHex(enc.buf))

\* What computeSignaturePubKey hashed (<<>> when it threw before hashing).
PubHashInput(oracleR, message) ==
    LET R == keyFromPublic(oracleR)
    IN  IF R.err # "ok" THEN <<>> ELSE HashInput(message, R.pub.x)

(***************************************************************************)
(* The oracle of TUTORIAL.md: a long-term private key, a one-time signing  *)
(* key whose public key (the R point) is published, then numeric values    *)
(* encoded as messages and signed.  Nothing in the library stops a second  *)
(* signature under the same one-time key.                                  *)
(***************************************************************************)
VARIABLES
    privateKey,         \* Buffer: the oracle's private key
    oneTimeSigningKey,  \* Buffer: the one-time signing key (<<>>: none yet)
    pubA, pubR,         \* results of publicKeyFromPrivateKey
    value,              \* the number last encoded
    message,            \* result of generateNumericMessage(value)
    sigPub,             \* result of computeSignaturePubKey for message
    pubHashed,          \* the bytes computeSignaturePubKey hashed
    signed,             \* whether message has been signed
    sigs,               \* the signatures made with oneTimeSigningKey: the
                        \* message, the bytes hashed, the challenge, the result
    num1, num2, modRes  \* a call of euclideanMod and its result

vars == <<privateKey, oneTimeSigningKey, pubA, pubR, value, message, sigPub,
          pubHashed, signed, sigs, num1, num2, modRes>>

oracleVars == <<privateKey, oneTimeSigningKey, pubA, pubR, sigPub, pubHashed,
                signed, sigs>>
modVars == <<num1, num2, modRes>>
NotCalled == [called |-> FALSE, r |-> 0]

PrivKeys == (0..MaxPriv) \cup (OrderN..(OrderN + MaxPriv))
NonceKeys == (0..MaxNonce) \cup (OrderN..(OrderN + MaxNonce))
Values == 0..MaxValue

Init ==
    /\ privateKey \in {ToArrayBE(a, ByteLen) : a \in PrivKeys}
    /\ oneTimeSigningKey = <<>>
    /\ pubA = Pending /\ pubR = Pending
    /\ value = 0 /\ message = Pending
    /\ sigPub = Pending /\ pubHashed = <<>>
    /\ signed = FALSE
    /\ sigs = <<>>
    /\ num1 = 0 /\ num2 = 1 /\ modRes = NotCalled

\* generateOneTimeSigningKey: ByteLen random bytes.
GenerateOneTimeSigningKey ==
    /\ oneTimeSigningKey = <<>>
    /\ oneTimeSigningKey' \in {ToArrayBE(k, ByteLen) : k \in NonceKeys}
    /\ UNCHANGED <<privateKey, pubA, pubR, value, message, sigPub, pubHashed,
                   signed, sigs>>
    /\ UNCHANGED modVars

\* The oracle publishes its public key, then the R point.
PublicKeyFromPrivateKey ==
    /\ oneTimeSigningKey # <<>>
    /\ pubR = Pending
    /\ IF pubA = Pending
       THEN pubA' = publicKeyFromPrivateKey(privateKey) /\ pubR' = pubR
       ELSE pubR' = publicKeyFromPrivateKey(oneTimeSigningKey) /\ pubA' = pubA
    /\ UNCHANGED <<privateKey, oneTimeSigningKey, value, message, sigPub,
                   pubHashed, signed, sigs>>
    /\ UNCHANGED modVars

\* The next value to publish is encoded once the keys are published and
\* the previous message, if any, is signed.
GenerateNumericMessage ==
    /\ pubR # Pending
    /\ message = Pending \/ signed
    /\ Len(sigs) < MaxSigs
    /\ \E v \in Values :
         /\ value' = v
         /\ message' = generateNumericMessage(v)
    /\ sigPub' = Pending /\ pubHashed' = <<>>
    /\ signed' = FALSE
    /\ UNCHANGED <<privateKey, oneTimeSigningKey, pubA, pubR, sigs>>
    /\ UNCHANGED modVars

\* Anyone holding the two public keys computes the signature's public key.
ComputeSignaturePubKey ==
    /\ message.err = "ok"
    /\ pubA.err = "ok" /\ pubR.err = "ok"
    /\ sigPub = Pending
    /\ sigPub' = computeSignaturePubKey(pubA.buf, pubR.buf, message.buf)
    /\ pubHashed' = PubHashInput(pubR.buf, message.buf)
    /\ UNCHANGED <<privateKey, oneTimeSigningKey, pubA, pubR, value, message, signed, sigs>>
    /\ UNCHANGED modVars

\* The oracle signs the message.
ComputeSignature ==
    /\ message.err = "ok"
    /\ ~signed
    /\ signed' = TRUE
    /\ sigs' = Append(sigs,
                      [message |-> message.buf,
                       hashed |-> SignHashInput(oneTimeSigningKey, message.buf),
                       e |-> SignChallenge(oneTimeSigningKey, message.buf),
                       sig |-> computeSignature(privateKey, oneTimeSigningKey,
                                                message.buf)])
    /\ UNCHANGED <<privateKey, oneTimeSigningKey, pubA, pubR, value, message,
                   sigPub, pubHashed>>
    /\ UNCHANGED modVars

Next ==
    \/ GenerateOneTimeSigningKey
    \/ PublicKeyFromPrivateKey
    \/ GenerateNumericMessage
    \/ ComputeSignaturePubKey
    \/ ComputeSignature

Spec == Init /\ [][Next]_vars

(***************************************************************************)
(* generateNumericMessage on its own, over values of every hex length up   *)
(* to HexLen + 3 digits.                                                   *)
(***************************************************************************)
TestValues ==
    {d * Pow16(j) + r : d \in 0..15, j \in 0..(HexLen + 2), r \in 0..MaxLow}
    \cup {Pow16(j) - 1 - r : j \in 1..(HexLen + 3), r \in 0..MaxLow}

InitMsg ==
    /\ value \in TestValues
    /\ message = Pending
    /\ privateKey = <<>> /\ oneTimeSigningKey = <<>>
    /\ pubA = Pending /\ pubR = Pending
    /\ sigPub = Pending /\ pubHashed = <<>>
    /\ signed = FALSE
    /\ sigs = <<>>
    /\ num1 = 0 /\ num2 = 1 /\ modRes = NotCalled

EncodeValue ==
    /\ message = Pending
    /\ message' = generateNumericMessage(value)
    /\ UNCHANGED <<value, oracleVars, modVars>>

NextMsg == EncodeValue

SpecMsg == InitMsg /\ [][NextMsg]_vars

(***************************************************************************)
(* euclideanMod on its own, over dividends and divisors of either sign.    *)
(***************************************************************************)
InitMod ==
    /\ num1 \in (-MaxNum)..MaxNum
    /\ num2 \in ((-MaxMod)..MaxMod) \ {0}
    /\ modRes = NotCalled
    /\ value = 0 /\ message = Pending
    /\ privateKey = <<>> /\ oneTimeSigningKey = <<>>
    /\ pubA = Pending /\ pubR = Pending
    /\ sigPub = Pending /\ pubHashed = <<>>
    /\ signed = FALSE
    /\ sigs = <<>>

EuclideanMod ==
    /\ ~modRes.called
    /\ modRes' = [called |-> TRUE, r |-> euclideanMod(num1, num2)]
    /\ UNCHANGED <<num1, num2, value, message, oracleVars>>

NextMod == EuclideanMod

SpecMod == InitMod /\ [][NextMod]_vars

(***************************************************************************)
(* The properties.                                                         *)
(***************************************************************************)
\* The integer a Buffer holds, big-endian.
RECURSIVE BigEndianValue(_)
BigEndianValue(b) ==
    IF Len(b) = 0 THEN 0
    ELSE 256 * BigEndianValue(SubSeq(b, 1, Len(b) - 1)) + b[Len(b)]

\* The inverse modulo the (prime) curve order.
OrderInv(x) == PowMod(x % OrderN, OrderN - 2, OrderN)

\* The compressed encoding of a finite point: parity byte, then x.
Compressed(P) == <<2 + (P.y % 2)>> \o [i \in 1..ByteLen |->
                     (P.x \div Pow16(2 * (ByteLen - i))) % 256]

ValidScalar(x) == 1 <= x /\ x < OrderN
a0 == BigEndianValue(privateKey)
k0 == BigEndianValue(oneTimeSigningKey)
LastSig == sigs[Len(sigs)]

\* C1: for valid a and k, computeSignaturePubKey(a.G, k.G, m) is the
\* compressed encoding of s.G, s the scalar computeSignature(a, k, m)
\* returns.
C1_CorrectnessIdentity ==
    (signed /\ pubA.err = "ok" /\ pubR.err = "ok" /\ sigPub # Pending
       /\ ValidScalar(a0) /\ ValidScalar(k0))
    => /\ LastSig.sig.err = "ok"
       /\ sigPub.err = "ok"
       /\ LET sG == PointMul(G, BigEndianValue(LastSig.sig.buf))
          IN  ~sG.inf /\ sigPub.buf = Compressed(sG)

\* The identity where neither the challenge nor the signature scalar is a
\* multiple of the curve order.
C1_IdentityNonDegenerate ==
    (signed /\ pubA.err = "ok" /\ pubR.err = "ok" /\ sigPub # Pending
       /\ LastSig.e % OrderN # 0
       /\ (k0 - LastSig.e * a0) % OrderN # 0)
    => /\ LastSig.sig.err = "ok"
       /\ sigPub.err = "ok"
       /\ LET sG == PointMul(G, BigEndianValue(LastSig.sig.buf))
          IN  ~sG.inf /\ sigPub.buf = Compressed(sG)

\* C2: computeSignature returns ByteLen bytes, the big-endian encoding of
\* s = (k - e*a) mod n, and s is less than n.
C2_SignatureCanonical ==
    \A i \in 1..Len(sigs) :
        (k0 % OrderN # 0)
        => /\ sigs[i].sig.err = "ok"
           /\ Len(sigs[i].sig.buf) = ByteLen
           /\ BigEndianValue(sigs[i].sig.buf) = (k0 - sigs[i].e * a0) % OrderN
           /\ BigEndianValue(sigs[i].sig.buf) < OrderN

\* C3: when the challenge e is 0 or k - e*a is a multiple of n,
\* computeSignature fails with ArithmeticDegenerate and returns no bytes.
C3_DegenerateRejected ==
    \A i \in 1..Len(sigs) :
        (k0 % OrderN # 0
           /\ (sigs[i].e = 0 \/ (k0 - sigs[i].e * a0) % OrderN = 0))
        => sigs[i].sig.err = "ArithmeticDegenerate"

\* C4: two signatures under the same valid a and k, of distinct messages
\* whose challenges differ mod n, give back a = (s2 - s1)/(e1 - e2) mod n and
\* k = s1 + e1*a mod n.
NonceReused(i, j) ==
    /\ i \in 1..Len(sigs) /\ j \in 1..Len(sigs)
    /\ ValidScalar(a0) /\ ValidScalar(k0)
    /\ sigs[i].message # sigs[j].message
    /\ (sigs[i].e - sigs[j].e) % OrderN # 0

C4_NonceReuseRecovers ==
    \A i, j \in 1..Len(sigs) :
        NonceReused(i, j)
        => /\ sigs[i].sig.err = "ok" /\ sigs[j].sig.err = "ok"
           /\ LET s1 == BigEndianValue(sigs[i].sig.buf)
                  s2 == BigEndianValue(sigs[j].sig.buf)
                  e1 == sigs[i].e
                  e2 == sigs[j].e
                  a == (((s2 - s1) % OrderN) * OrderInv(e1 - e2)) % OrderN
                  k == (s1 + (e1 % OrderN) * a) % OrderN
              IN  a = a0 /\ k = k0

C4_Witness ==
    \E i, j \in 1..Len(sigs) :
        /\ NonceReused(i, j)
        /\ sigs[i].sig.err = "ok" /\ sigs[j].sig.err = "ok"
        /\ sigs[i].sig.buf # sigs[j].sig.buf
        /\ a0 > 1

\* C5: for a value below 16^HexLen, generateNumericMessage returns ByteLen
\* bytes whose big-endian value is the value; 0 gives zero bytes only, 255
\* gives zero bytes and a last byte 0xFF.
C5_NumericMessageRoundTrip ==
    (message # Pending /\ value < Pow16(HexLen))
    => /\ message.err = "ok"
       /\ Len(message.buf) = ByteLen
       /\ BigEndianValue(message.buf) = value
       /\ value = 0 => message.buf = [i \in 1..ByteLen |-> 0]
       /\ value = 255 => message.buf = [i \in 1..ByteLen |->
                                          IF i = ByteLen THEN 255 ELSE 0]

C5_Witness ==
    /\ message.err = "ok"
    /\ value = 255
    /\ message.buf = [i \in 1..ByteLen |-> IF i = ByteLen THEN 255 ELSE 0]

\* C6: generateNumericMessage fails for every value of more than HexLen
\* hex digits, HexLen + 1 digits included: it returns no buffer.
C6_OutOfRangeRejected ==
    (message # Pending /\ Len(toString16(value)) > HexLen)
    => message.err \notin {"ok", "pending"}

\* C7: for a positive modulus m, euclideanMod(a, m) is in [0, m) and
\* congruent to a modulo m, for negative, zero and positive a.
C7_EuclideanModCanonical ==
    (modRes.called /\ num2 > 0)
    => /\ 0 <= modRes.r /\ modRes.r < num2
       /\ (modRes.r - num1) % num2 = 0

\* C8: publicKeyFromPrivateKey fails for the private key 0 and for private
\* keys >= n, and returns the compressed encoding of a.G for a in [1, n-1].
C8_PublicKeyChecked ==
    (pubA # Pending)
    => /\ (a0 = 0 \/ a0 >= OrderN) => pubA.err # "ok"
       /\ ValidScalar(a0) =>
            /\ pubA.err = "ok"
            /\ pubA.buf = Compressed(PointMul(G, a0))
       /\ a0 = 1 => pubA.buf = Compressed(G)

\* C9: in both functions the bytes hashed after the message are the
\* ByteLen-byte big-endian x-coordinate of R, so 2 * ByteLen bytes are
\* hashed for every nonce.
FixedWidthRx(k) ==
    LET R == PointMul(G, k)
    IN  [i \in 1..ByteLen |-> (R.x \div Pow16(2 * (ByteLen - i))) % 256]

C9_HashInputFixedWidth ==
    /\ \A i \in 1..Len(sigs) :
            sigs[i].sig.err = "ok"
            => sigs[i].hashed = sigs[i].message \o FixedWidthRx(k0)
    /\ (sigPub.err = "ok")
            => pubHashed = message.buf \o FixedWidthRx(k0)

\* C10: computeSignature depends on a and k only through their residues
\* modulo n.
C10_ResiduesOnly ==
    \A i \in 1..Len(sigs) :
        \A a \in PrivKeys, k \in NonceKeys :
            (a % OrderN = a0 % OrderN /\ k % OrderN = k0 % OrderN)
            => computeSignature(ToArrayBE(a, ByteLen), ToArrayBE(k, ByteLen),
                                sigs[i].message) = sigs[i].sig
=============================================================================
